---- MODULE Spec2Model ----
(***************************************************************************)
(* Runway tool adapters (tools/runway-api/*.js): each tool's               *)
(* executeFunction validates its arguments, reads RUNWAY_API_KEY, builds a *)
(* vendor client, submits one request and reshapes the vendor's answer     *)
(* into a flat result envelope.                                            *)
(*                                                                         *)
(* JavaScript values.  An object is a function from property names to      *)
(* values; a property whose value is undefined is a name outside the       *)
(* DOMAIN (reading either gives undefined in JavaScript).  Strings that    *)
(* the code builds or inspects (error texts, messages) are sequences of    *)
(* words, so that a template literal and String.includes are computed.     *)
(* The vendor SDK (@runwayml/sdk) is the environment: its answers are      *)
(* drawn from the outcomes the handlers' own success and catch paths       *)
(* distinguish.  Arguments are always an object (the host passes the       *)
(* tool-call arguments mapping), and the SDK import itself succeeds.        *)
(***************************************************************************)
EXTENDS Integers, Sequences, FiniteSets, TLC

VARIABLES processEnv, tasks, pc, op, args, calls, client, request, resp,
          waitingOn, result, reported, registry, other

vars == <<processEnv, tasks, pc, op, args, calls, client, request, resp,
          waitingOn, result, reported, registry, other>>

---------------------------------------------------------------------------
(* Bounds *)

MaxRefs == 4

NumTasks == 1

MaxTime == 1

---------------------------------------------------------------------------
(* JavaScript objects and truthiness *)

Empty == [k \in {} |-> k]

Has(o, f) == f \in DOMAIN o

Truthy(o, f) == Has(o, f) /\ o[f] # ""

Default(o, f, d) == IF Has(o, f) THEN o[f] ELSE d

Prop(o, src, dst) == IF Has(o, src) THEN dst :> o[src] ELSE Empty

RECURSIVE CopyFields(_, _)
CopyFields(o, fields) ==
    IF fields = <<>> THEN Empty
    ELSE Prop(o, Head(fields), Head(fields)) @@ CopyFields(o, Tail(fields))

Null == "null"

Arr(items) == [array |-> TRUE, items |-> items]

NullValue == [array |-> FALSE, items |-> <<>>]

Includes(text, pattern) ==
    \E i \in 0..(Len(text) - Len(pattern)) :
        SubSeq(text, i + 1, i + Len(pattern)) = pattern

ToISOString(t) == ToString(t)

---------------------------------------------------------------------------
(* The catalog *)

(* Variant: the list of the earlier release, without video-to-video *)
toolPaths_Legacy ==
    <<"runway-api/generate-image.js",
      "runway-api/generate-image-with-references.js",
      "runway-api/generate-video-from-text.js",
      "runway-api/generate-video-from-image.js",
      "runway-api/upscale-video.js",
      "runway-api/get-task-status.js",
      "runway-api/list-tasks.js",
      "runway-api/cancel-task.js">>

toolPaths ==
    <<"runway-api/generate-image.js",
      "runway-api/generate-image-with-references.js",
      "runway-api/generate-video-from-text.js",
      "runway-api/generate-video-from-image.js",
      "runway-api/generate-video-from-video.js",
      "runway-api/upscale-video.js",
      "runway-api/get-task-status.js",
      "runway-api/list-tasks.js",
      "runway-api/cancel-task.js">>

(* apiTool.definition.function.name of the module at each path *)
ToolName(path) ==
    CASE path = "runway-api/generate-image.js" -> "GenerateImage"
      [] path = "runway-api/generate-image-with-references.js" ->
            "GenerateImageWithReferences"
      [] path = "runway-api/generate-video-from-text.js" -> "GenerateVideoFromText"
      [] path = "runway-api/generate-video-from-image.js" -> "GenerateVideoFromImage"
      [] path = "runway-api/generate-video-from-video.js" -> "GenerateVideoFromVideo"
      [] path = "runway-api/upscale-video.js" -> "UpscaleVideo"
      [] path = "runway-api/get-task-status.js" -> "GetTaskStatus"
      [] path = "runway-api/list-tasks.js" -> "ListTasks"
      [] path = "runway-api/cancel-task.js" -> "CancelTask"

(* The catalog the server builds at startup: one entry per path of         *)
(* toolPaths, in the order of the list, under the name the module declares *)
discoverTools ==
    [i \in 1..Len(toolPaths) |->
        [name |-> ToolName(toolPaths[i]), path |-> toolPaths[i]]]

(* The earlier version of the list-tasks module, which calls no endpoint   *)
ListTasksUnsupported == "ListTasksUnsupported"

Handlers ==
    {ToolName(toolPaths[i]) : i \in 1..Len(toolPaths)} \cup {ListTasksUnsupported}

GenerationOps == {"GenerateImage", "GenerateImageWithReferences",
                  "GenerateVideoFromText", "GenerateVideoFromImage",
                  "GenerateVideoFromVideo", "UpscaleVideo"}

TaskOps == {"GetTaskStatus", "CancelTask"}

ListOps == {"ListTasks", ListTasksUnsupported}

---------------------------------------------------------------------------
(* Outcomes of a block of handler code *)

Continue == [kind |-> "continue"]

Return(env) == [kind |-> "return", value |-> env]

Throw(err) == [kind |-> "throw", error |-> err]

NoResult == [kind |-> "none"]

---------------------------------------------------------------------------
(* Failure envelopes built before the vendor call *)

CredentialError ==
    [success |-> FALSE,
     error |-> <<"RUNWAY_API_KEY", "environment", "variable", "is", "not", "set.">>]

Required(p) == [success |-> FALSE, error |-> <<p, "is", "required">>]

NonEmptyArrayError ==
    [success |-> FALSE,
     error |-> <<"referenceImages", "must", "be", "a", "non-empty", "array">>]

RefUriError(i) ==
    [success |-> FALSE,
     error |-> <<"Reference", "image", "at", "index", ToString(i),
                 "must", "have", "a", "'uri'", "property">>]

TypeErrorNull ==
    [name |-> "TypeError",
     message |-> <<"Cannot", "read", "properties", "of", "null">>]

(* Variant: the loop reports a 1-based position *)
RECURSIVE RefLoop_OneBased(_, _)
RefLoop_OneBased(items, i) ==
    IF i >= Len(items) THEN -1
    ELSE IF ~Truthy(items[i + 1], "uri") THEN i + 1
    ELSE RefLoop_OneBased(items, i + 1)

(* for (let i = 0; i < referenceImages.length; i++) if (!img.uri) return:  *)
(* the index at which the loop returns, -1 when it runs to the end.        *)
RECURSIVE RefLoop(_, _)
RefLoop(items, i) ==
    IF i >= Len(items) THEN -1
    ELSE IF ~Truthy(items[i + 1], "uri") THEN i
    ELSE RefLoop(items, i + 1)

---------------------------------------------------------------------------
(* Local parameter checks: the code of each try block up to the import *)

(* Variant: only an undefined promptImage is rejected *)
ValidateGenerateVideoFromImage_UndefinedOnly(a) ==
    IF ~Has(a, "promptImage") THEN Return(Required("promptImage"))
    ELSE Continue

ValidateGenerateVideoFromImage(a) ==
    IF ~Truthy(a, "promptImage") THEN Return(Required("promptImage"))
    ELSE Continue

ValidateGenerateVideoFromVideo(a) ==
    IF ~Truthy(a, "promptVideo") THEN Return(Required("promptVideo"))
    ELSE IF ~Truthy(a, "promptText") THEN Return(Required("promptText"))
    ELSE LET referenceImages == Default(a, "referenceImages", Arr(<<>>)) IN
         IF ~referenceImages.array THEN Throw(TypeErrorNull)
         ELSE IF Len(referenceImages.items) > 0
              THEN LET i == RefLoop(referenceImages.items, 0) IN
                   IF i >= 0 THEN Return(RefUriError(i)) ELSE Continue
              ELSE Continue

ValidateUpscaleVideo(a) ==
    IF ~Truthy(a, "promptVideo") THEN Return(Required("promptVideo"))
    ELSE Continue

ValidateTaskId(a) ==
    IF ~Truthy(a, "taskId") THEN Return(Required("taskId"))
    ELSE Continue

ValidateGenerateImageWithReferences(a) ==
    IF \/ ~Has(a, "referenceImages")
       \/ ~a.referenceImages.array
       \/ Len(a.referenceImages.items) = 0
    THEN Return(NonEmptyArrayError)
    ELSE LET i == RefLoop(a.referenceImages.items, 0) IN
         IF i >= 0 THEN Return(RefUriError(i)) ELSE Continue

LocalChecks(h, a) ==
    CASE h = "GenerateVideoFromImage" -> ValidateGenerateVideoFromImage(a)
      [] h = "GenerateVideoFromVideo" -> ValidateGenerateVideoFromVideo(a)
      [] h = "UpscaleVideo" -> ValidateUpscaleVideo(a)
      [] h \in TaskOps -> ValidateTaskId(a)
      [] h = "GenerateImageWithReferences" -> ValidateGenerateImageWithReferences(a)
      [] OTHER -> Continue

---------------------------------------------------------------------------
(* The credential check and the request each handler builds *)

(* Variant: only an undefined key counts as unset (apiKey === undefined) *)
ApiKeySet_DefinedOnly(env) == Has(env, "RUNWAY_API_KEY")

ApiKeySet(env) == Truthy(env, "RUNWAY_API_KEY")

Min(x, y) == IF x < y THEN x ELSE y

Endpoint(h) ==
    CASE h \in {"GenerateImage", "GenerateImageWithReferences"} -> "textToImage"
      [] h = "GenerateVideoFromText" -> "textToVideo"
      [] h = "GenerateVideoFromImage" -> "imageToVideo"
      [] h = "GenerateVideoFromVideo" -> "videoToVideo"
      [] h = "UpscaleVideo" -> "videoUpscale"
      [] h = "GetTaskStatus" -> "tasks.retrieve"
      [] h = "CancelTask" -> "tasks.cancel"
      [] h \in ListOps -> "tasks.list"

DefaultModel(h) ==
    CASE h \in {"GenerateImage", "GenerateImageWithReferences"} -> "gen4_image"
      [] h = "UpscaleVideo" -> "upscale_video"
      [] OTHER -> "gen4_turbo"

DefaultRatio(h) ==
    IF h \in {"GenerateImage", "GenerateImageWithReferences"}
    THEN "1920:1080" ELSE "1280:720"

DefaultDuration == 5

DefaultLimit == 10

LimitCap == 100

TruthyProp(a, f) == IF Truthy(a, f) THEN f :> a[f] ELSE Empty

(* Variant: the duration is clamped to the declared range 5..10 *)
Duration_Clamped(a) ==
    LET d == Default(a, "duration", DefaultDuration) IN
    IF d < 5 THEN 5 ELSE IF d > 10 THEN 10 ELSE d

(* duration = 5 in the parameter list, then duration in params *)
Duration(a) == Default(a, "duration", DefaultDuration)

(* Variant: the limit is passed through without the cap *)
ListLimit_NoCap(a) == Default(a, "limit", DefaultLimit)

(* limit = 10 in the parameter list, then Math.min(limit, 100) *)
ListLimit(a) == Min(Default(a, "limit", DefaultLimit), LimitCap)

BuildParams(h, a) ==
    CASE h = "GenerateImage" ->
            [model |-> Default(a, "model", DefaultModel(h)),
             ratio |-> Default(a, "ratio", DefaultRatio(h))]
            @@ Prop(a, "promptText", "promptText")
            @@ Prop(a, "seed", "seed") @@ TruthyProp(a, "style")
      [] h = "GenerateImageWithReferences" ->
            [model |-> Default(a, "model", DefaultModel(h)),
             ratio |-> Default(a, "ratio", DefaultRatio(h)),
             referenceImages |-> a.referenceImages]
            @@ Prop(a, "promptText", "promptText") @@ Prop(a, "seed", "seed")
      [] h = "GenerateVideoFromText" ->
            [model |-> Default(a, "model", DefaultModel(h)),
             ratio |-> Default(a, "ratio", DefaultRatio(h)),
             duration |-> Duration(a)]
            @@ Prop(a, "promptText", "promptText") @@ Prop(a, "seed", "seed")
      [] h = "GenerateVideoFromImage" ->
            [model |-> Default(a, "model", DefaultModel(h)),
             promptImage |-> a.promptImage,
             ratio |-> Default(a, "ratio", DefaultRatio(h)),
             duration |-> Duration(a)]
            @@ TruthyProp(a, "promptText") @@ Prop(a, "seed", "seed")
      [] h = "GenerateVideoFromVideo" ->
            [model |-> Default(a, "model", DefaultModel(h)),
             promptVideo |-> a.promptVideo,
             promptText |-> a.promptText,
             ratio |-> Default(a, "ratio", DefaultRatio(h)),
             duration |-> Duration(a)]
            @@ (IF Len(Default(a, "referenceImages", Arr(<<>>)).items) > 0
                THEN "referenceImages" :> a.referenceImages ELSE Empty)
            @@ Prop(a, "seed", "seed")
      [] h = "UpscaleVideo" ->
            [model |-> Default(a, "model", DefaultModel(h)),
             promptVideo |-> a.promptVideo]
      [] h \in TaskOps -> [taskId |-> a.taskId]
      [] h \in ListOps ->
            [limit |-> ListLimit(a)]
            @@ TruthyProp(a, "status") @@ TruthyProp(a, "cursor")

(* Variant: an empty page is returned as a success *)
UnsupportedEnvelope_EmptyPage == [success |-> TRUE, tasks |-> <<>>]

UnsupportedEnvelope ==
    [success |-> FALSE,
     error |-> <<"Task", "listing", "not", "supported">>,
     message |-> <<"The", "Runway", "API", "does", "not", "provide", "a",
                   "list", "tasks", "endpoint.">>,
     suggestion |-> <<"Use", "GetTaskStatus", "with", "task", "IDs">>]

---------------------------------------------------------------------------
(* Success envelopes: the return statement after the awaited vendor call *)

UrlField(h) ==
    IF h \in {"GenerateImage", "GenerateImageWithReferences"}
    THEN "imageUrl" ELSE "videoUrl"

EchoFields(h) ==
    CASE h = "GenerateImage" -> <<"createdAt", "model", "promptText", "ratio">>
      [] h = "GenerateImageWithReferences" ->
            <<"createdAt", "model", "promptText", "ratio", "referenceImages">>
      [] h = "GenerateVideoFromText" ->
            <<"createdAt", "model", "promptText", "ratio", "duration">>
      [] h = "GenerateVideoFromImage" ->
            <<"createdAt", "model", "promptImage", "promptText", "ratio", "duration">>
      [] h = "GenerateVideoFromVideo" ->
            <<"createdAt", "model", "promptVideo", "promptText",
              "referenceImages", "ratio", "duration">>
      [] h = "UpscaleVideo" -> <<"createdAt", "model", "promptVideo">>

(* Variant: the last element of the output collection *)
FirstOutput_Last(task) ==
    IF Has(task, "output") /\ Len(task.output) > 0
    THEN task.output[Len(task.output)] ELSE Null

(* task.output && task.output[0] ? task.output[0] : null *)
FirstOutput(task) ==
    IF Has(task, "output") /\ Len(task.output) > 0 /\ task.output[1] # ""
    THEN task.output[1] ELSE Null

GenerationSuccess(h, task) ==
    ("success" :> TRUE)
    @@ Prop(task, "id", "taskId")
    @@ CopyFields(task, <<"status", "output">>)
    @@ (UrlField(h) :> FirstOutput(task))
    @@ CopyFields(task, EchoFields(h))

(* Variant: the status is derived from the presence of an output *)
StatusSuccess_FromOutput(task) ==
    ("success" :> TRUE)
    @@ Prop(task, "id", "taskId")
    @@ [status |-> IF Truthy(task, "output") THEN task.status ELSE "PENDING"]
    @@ CopyFields(task, <<"createdAt", "updatedAt", "output",
                          "failureReason", "model", "promptText", "promptImage",
                          "ratio", "duration", "progress",
                          "estimatedTimeRemaining">>)

(* Variant: the status is reported only once the task has ended *)
StatusSuccess_TerminalOnly(task) ==
    ("success" :> TRUE)
    @@ Prop(task, "id", "taskId")
    @@ (IF Has(task, "status") /\ task.status \in {"SUCCEEDED", "FAILED", "CANCELED"}
        THEN Prop(task, "status", "status") ELSE Empty)
    @@ CopyFields(task, <<"createdAt", "updatedAt", "output",
                          "failureReason", "model", "promptText", "promptImage",
                          "ratio", "duration", "progress",
                          "estimatedTimeRemaining">>)

StatusSuccess(task) ==
    ("success" :> TRUE)
    @@ Prop(task, "id", "taskId")
    @@ CopyFields(task, <<"status", "createdAt", "updatedAt", "output",
                          "failureReason", "model", "promptText", "promptImage",
                          "ratio", "duration", "progress",
                          "estimatedTimeRemaining">>)

(* Variant: canceledAt is always the time of the call *)
CancelSuccess_AlwaysClock(a, res, now) ==
    [success |-> TRUE,
     taskId |-> a.taskId,
     message |-> <<"Task", "cancellation", "requested">>,
     canceledAt |-> ToISOString(now)]
    @@ Prop(res, "status", "status")

CancelSuccess(a, res, now) ==
    [success |-> TRUE,
     taskId |-> a.taskId,
     message |-> <<"Task", "cancellation", "requested">>,
     canceledAt |-> IF Truthy(res, "canceledAt") THEN res.canceledAt
                    ELSE ToISOString(now)]
    @@ Prop(res, "status", "status")

ListItem(task) ==
    Prop(task, "id", "taskId")
    @@ CopyFields(task, <<"status", "createdAt", "updatedAt", "model", "type",
                          "output", "promptText", "promptImage", "failureReason">>)

ListSuccess(page) ==
    [success |-> TRUE,
     tasks |-> IF Has(page, "data")
               THEN [i \in 1..Len(page.data) |-> ListItem(page.data[i])]
               ELSE <<>>]
    @@ CopyFields(page, <<"hasMore", "nextCursor", "total">>)

OnSuccess(h, a, value, now) ==
    CASE h \in GenerationOps -> GenerationSuccess(h, value)
      [] h = "GetTaskStatus" -> StatusSuccess(value)
      [] h = "CancelTask" -> CancelSuccess(a, value, now)
      [] h = "ListTasks" -> ListSuccess(value)

---------------------------------------------------------------------------
(* Catch blocks *)

FailedLabel(h) ==
    CASE h \in {"GenerateImage", "GenerateImageWithReferences"} ->
            <<"Image", "generation", "task", "failed">>
      [] h \in {"GenerateVideoFromText", "GenerateVideoFromImage"} ->
            <<"Video", "generation", "task", "failed">>
      [] h = "GenerateVideoFromVideo" ->
            <<"Video-to-video", "generation", "task", "failed">>
      [] h = "UpscaleVideo" -> <<"Video", "upscaling", "task", "failed">>

GenericLabel(h) ==
    <<"An", "error", "occurred", "while">> \o
    (CASE h = "GenerateImage" -> <<"generating", "the", "image">>
       [] h = "GenerateImageWithReferences" ->
             <<"generating", "the", "image", "with", "references">>
       [] h = "GenerateVideoFromText" ->
             <<"generating", "the", "video", "from", "text">>
       [] h = "GenerateVideoFromImage" ->
             <<"generating", "the", "video", "from", "image">>
       [] h = "GenerateVideoFromVideo" ->
             <<"generating", "the", "video", "from", "video">>
       [] h = "UpscaleVideo" -> <<"upscaling", "the", "video">>
       [] h = "GetTaskStatus" -> <<"retrieving", "the", "task", "status">>
       [] h = "CancelTask" -> <<"canceling", "the", "task">>
       [] h \in ListOps -> <<"listing", "tasks">>)

NotFoundLabel == <<"Task", "not", "found">>

NotCancelableLabel ==
    <<"Task", "cannot", "be", "canceled",
      "(may", "already", "be", "completed", "or", "failed)">>

(* Variant: the other spelling *)
CannotBeCanceled_Cancelled == <<"cannot", "be", "cancelled">>

CannotBeCanceled == <<"cannot", "be", "canceled">>

HttpNotFound == 404

HttpBadRequest == 400

StatusIs(error, code) == Has(error, "status") /\ error.status = code

(* Variant: the id is read from the error object, not from its payload *)
TaskDetailsId_FromError(error) == Prop(error, "id", "taskId")

(* error.taskDetails?.id *)
TaskDetailsId(error) ==
    IF Has(error, "taskDetails")
    THEN Prop(error.taskDetails, "id", "taskId") ELSE Empty

(* Variant: a task that ended without output is returned as a result *)
CatchGeneration_FailedAsResult(h, error) ==
    IF error.name = "TaskFailedError"
    THEN [success |-> TRUE, error |-> FailedLabel(h)]
         @@ Prop(error, "taskDetails", "details")
         @@ TaskDetailsId(error)
    ELSE [success |-> FALSE, error |-> GenericLabel(h)]
         @@ Prop(error, "message", "message")

(* Variant: no TaskFailedError branch *)
CatchGeneration_NoFailedCheck(h, error) ==
    [success |-> FALSE, error |-> GenericLabel(h)]
    @@ Prop(error, "message", "message")

CatchGeneration(h, error) ==
    IF error.name = "TaskFailedError"
    THEN [success |-> FALSE, error |-> FailedLabel(h)]
         @@ Prop(error, "taskDetails", "details")
         @@ TaskDetailsId(error)
    ELSE [success |-> FALSE, error |-> GenericLabel(h)]
         @@ Prop(error, "message", "message")

(* Variant: no 404 branch *)
CatchGetTaskStatus_NoNotFound(a, error) ==
    [success |-> FALSE, error |-> GenericLabel("GetTaskStatus")]
    @@ Prop(error, "message", "message") @@ Prop(a, "taskId", "taskId")

CatchGetTaskStatus(a, error) ==
    IF StatusIs(error, HttpNotFound)
    THEN [success |-> FALSE, error |-> NotFoundLabel] @@ Prop(a, "taskId", "taskId")
    ELSE [success |-> FALSE, error |-> GenericLabel("GetTaskStatus")]
         @@ Prop(error, "message", "message") @@ Prop(a, "taskId", "taskId")

(* Variant: the generic branch does not echo the task id *)
CatchCancelTask_NoEcho(a, error) ==
    IF StatusIs(error, HttpNotFound)
    THEN [success |-> FALSE, error |-> NotFoundLabel] @@ Prop(a, "taskId", "taskId")
    ELSE IF /\ StatusIs(error, HttpBadRequest)
            /\ Has(error, "message")
            /\ Includes(error.message, CannotBeCanceled)
    THEN [success |-> FALSE, error |-> NotCancelableLabel]
         @@ Prop(a, "taskId", "taskId")
    ELSE [success |-> FALSE, error |-> GenericLabel("CancelTask")]
         @@ Prop(error, "message", "message")

CatchCancelTask(a, error) ==
    IF StatusIs(error, HttpNotFound)
    THEN [success |-> FALSE, error |-> NotFoundLabel] @@ Prop(a, "taskId", "taskId")
    ELSE IF /\ StatusIs(error, HttpBadRequest)
            /\ Has(error, "message")
            /\ Includes(error.message, CannotBeCanceled)
    THEN [success |-> FALSE, error |-> NotCancelableLabel]
         @@ Prop(a, "taskId", "taskId")
    ELSE [success |-> FALSE, error |-> GenericLabel("CancelTask")]
         @@ Prop(error, "message", "message") @@ Prop(a, "taskId", "taskId")

(* Variant: the failure envelope also carries a status *)
CatchListTasks_WithStatus(h, error) ==
    [success |-> FALSE, error |-> GenericLabel(h), status |-> "FAILED"]
    @@ Prop(error, "message", "message")

CatchListTasks(h, error) ==
    [success |-> FALSE, error |-> GenericLabel(h)]
    @@ Prop(error, "message", "message")

Catch(h, a, error) ==
    CASE h \in GenerationOps -> CatchGeneration(h, error)
      [] h = "GetTaskStatus" -> CatchGetTaskStatus(a, error)
      [] h = "CancelTask" -> CatchCancelTask(a, error)
      [] h \in ListOps -> CatchListTasks(h, error)

(* Variant: the catch block rethrows instead of returning *)
TryCatch_Rethrow(h, a, r) == r

(* try { body } catch (error) { return ... }: what the handler's promise    *)
(* settles to when the body ends with outcome r.                           *)
TryCatch(h, a, r) ==
    IF r.kind = "throw" THEN Return(Catch(h, a, r.error)) ELSE r

---------------------------------------------------------------------------
(* The vendor: task store, answers and errors *)

Pending == "PENDING"

Running == "RUNNING"

Terminal == {"SUCCEEDED", "FAILED", "CANCELED"}

Absent == "ABSENT"

TaskStates == {Absent, Pending, Running} \cup Terminal

TaskNumbers == 1..NumTasks

TaskId(n) == ToString(n)

UnknownId == "ghost"

Known(store, id) == \E n \in TaskNumbers : TaskId(n) = id /\ store[n] # Absent

NumberOf(id) == CHOOSE n \in TaskNumbers : TaskId(n) = id

Ok(value) == [kind |-> "ok", value |-> value]

Err(error) == [kind |-> "error", error |-> error]

NoResp == [kind |-> "none"]

ConnectionError ==
    [name |-> "APIConnectionError", message |-> <<"Connection", "error.">>]

NotFoundError ==
    [name |-> "NotFoundError", status |-> 404,
     message |-> <<"404", "Task", "not", "found">>]

BadRequestError ==
    [name |-> "BadRequestError", status |-> 400,
     message |-> <<"400", "Invalid", "request">>]

NotCancelableError ==
    [name |-> "BadRequestError", status |-> 400,
     message |-> <<"400", "Task", "cannot", "be", "canceled">>]

Outputs == {Empty, [output |-> <<>>], [output |-> <<"url1">>],
            [output |-> <<"url1", "url2">>]}

TaskObject(store, n, out) ==
    [id |-> TaskId(n), status |-> store[n], createdAt |-> "created"] @@ out

TaskObjects(store, n) ==
    {TaskObject(store, n, out) :
        out \in IF store[n] = "SUCCEEDED" THEN Outputs ELSE {Empty}}

TaskFailedErrors(store, n) ==
    LET base == [name |-> "TaskFailedError", message |-> <<"Task", "failed">>] IN
    {base @@ [taskDetails |-> TaskObject(store, n, Empty)],
     base @@ [taskDetails |-> [status |-> store[n]]],
     base}

RetrieveOutcomes(store, id) ==
    (IF Known(store, id)
     THEN {Ok(t) : t \in TaskObjects(store, NumberOf(id))}
     ELSE {Err(NotFoundError)})
    \cup {Err(ConnectionError)}

CancelResults == {[status |-> "CANCELED"],
                  [status |-> "CANCELED", canceledAt |-> "vendor-time"]}

CancelOutcomes(store, id) ==
    (IF ~Known(store, id) THEN {Err(NotFoundError)}
     ELSE IF store[NumberOf(id)] \in Terminal THEN {Err(NotCancelableError)}
     ELSE {Ok(r) : r \in CancelResults})
    \cup {Err(ConnectionError), Err(BadRequestError)}

AfterCancel(store, id, o) ==
    IF o.kind = "ok" THEN [store EXCEPT ![NumberOf(id)] = "CANCELED"] ELSE store

Pages(store) ==
    {Empty, [data |-> <<>>, hasMore |-> FALSE]}
    \cup {[data |-> <<TaskObject(store, n, Empty)>>, hasMore |-> TRUE,
           nextCursor |-> "cursor2", total |-> 1] :
            n \in {m \in TaskNumbers : store[m] # Absent}}

ListOutcomes(store) ==
    {Ok(p) : p \in Pages(store)} \cup {Err(ConnectionError), Err(BadRequestError)}

CreateErrors == {ConnectionError, BadRequestError}

PollErrors == {ConnectionError, NotFoundError}

FreeNumbers(store) == {n \in TaskNumbers : store[n] = Absent}

(* waitForTaskOutput: what the wait settles to for the task's state *)
WaitOutcomes(store, n) ==
    (IF store[n] = "SUCCEEDED" THEN {Ok(t) : t \in TaskObjects(store, n)}
     ELSE IF store[n] \in Terminal
          THEN {Err(e) : e \in TaskFailedErrors(store, n)}
     ELSE {})
    \cup {Err(e) : e \in PollErrors}

Times == 0..MaxTime

---------------------------------------------------------------------------
(* Arguments a caller may pass *)

Opt(k, S) == {Empty} \cup {k :> v : v \in S}

Cross(A, B) == {x @@ y : x \in A, y \in B}

Texts == {"", "a red fox in snow"}

Media == {"", "https://example.com/in"}

RefImages == {[uri |-> "https://example.com/ref", tag |-> "ref"],
              [tag |-> "ref"],
              [uri |-> ""]}

RECURSIVE SeqsUpTo(_, _)
SeqsUpTo(S, n) ==
    IF n = 0 THEN {<<>>}
    ELSE LET shorter == SeqsUpTo(S, n - 1) IN
         shorter \cup {Append(q, x) : q \in {r \in shorter : Len(r) = n - 1}, x \in S}

(* maxItems of referenceImages in the two schemas *)
SchemaMaxItems == 4

(* A well-formed list one longer than the schemas allow *)
LongRefLists ==
    {Arr([i \in 1..(SchemaMaxItems + 1) |->
            [uri |-> "https://example.com/ref", tag |-> "ref"]])}

RefLists ==
    {NullValue} \cup {Arr(q) : q \in SeqsUpTo(RefImages, MaxRefs)} \cup LongRefLists

TaskIdArgs == {"", UnknownId} \cup {TaskId(n) : n \in TaskNumbers}

InSchema(h) ==
    CASE h = "GenerateImage" ->
            [model |-> "gen4_image", ratio |-> "1024:1024", seed |-> 0,
             style |-> "cinematic"]
      [] h = "GenerateImageWithReferences" ->
            [model |-> "gen4_image", ratio |-> "1024:1024", seed |-> 0]
      [] h = "UpscaleVideo" -> [model |-> "upscale_video"]
      [] OTHER ->
            [model |-> "gen4_turbo", ratio |-> "1024:1024", duration |-> 10,
             seed |-> 0]

OutOfSchema(h) ==
    CASE h = "GenerateImage" ->
            [model |-> "gen9", ratio |-> "1:1", seed |-> -1, style |-> "noir"]
      [] h = "GenerateImageWithReferences" ->
            [model |-> "gen9", ratio |-> "1:1", seed |-> -1]
      [] h = "UpscaleVideo" -> [model |-> "gen9"]
      [] OTHER ->
            [model |-> "gen9", ratio |-> "1:1", duration |-> 60, seed |-> -1]

(* Values outside the schema that JavaScript treats as false *)
FalsyOutOfSchema(h) ==
    CASE h = "GenerateImage" -> {[model |-> "", ratio |-> "", style |-> ""]}
      [] h = "GenerateVideoFromText" ->
            {[model |-> "", ratio |-> "", duration |-> 0, seed |-> -1]}
      [] OTHER -> {}

Tuning(h) == {Empty, InSchema(h), OutOfSchema(h)} \cup FalsyOutOfSchema(h)

Limits == {0, 1, 100, 101}

ShortRefLists == {r \in RefLists : Len(r.items) <= 1}

ArgsOf(h) ==
    CASE h \in {"GenerateImage", "GenerateVideoFromText"} ->
            Cross(Opt("promptText", Texts), Tuning(h))
      [] h = "GenerateImageWithReferences" ->
            Cross(Opt("promptText", Texts),
                  Cross(Opt("referenceImages", ShortRefLists), Tuning(h)))
            \cup Cross([promptText : Texts \ {""}],
                       Opt("referenceImages", RefLists))
      [] h = "GenerateVideoFromImage" ->
            Cross(Opt("promptImage", Media),
                  Cross(Opt("promptText", Texts), Tuning(h)))
      [] h = "GenerateVideoFromVideo" ->
            Cross(Opt("promptVideo", Media),
                  Cross(Opt("promptText", Texts),
                        Cross(Opt("referenceImages", ShortRefLists), Tuning(h))))
            \cup Cross([promptVideo : Media \ {""}, promptText : Texts \ {""}],
                       Opt("referenceImages", RefLists))
      [] h = "UpscaleVideo" -> Cross(Opt("promptVideo", Media), Tuning(h))
      [] h \in TaskOps -> Opt("taskId", TaskIdArgs)
      [] h \in ListOps ->
            Cross(Opt("limit", Limits),
                  Cross(Opt("status", {"RUNNING"}), Opt("cursor", {"cursor1"})))

ApiKeys == {"", "key_1", "key_2"}

---------------------------------------------------------------------------
(* Handler steps between suspension points *)

(* From the resumption after the import to the submitted request *)
(* Variant: the client is constructed before the credential is checked *)
Submit_ClientFirst(h, a, env) ==
    IF ~ApiKeySet(env)
    THEN [kind |-> "return", value |-> CredentialError, client |-> TRUE]
    ELSE IF h = ListTasksUnsupported
    THEN [kind |-> "return", value |-> UnsupportedEnvelope, client |-> TRUE]
    ELSE [kind |-> "request", client |-> TRUE,
          request |-> [endpoint |-> Endpoint(h), params |-> BuildParams(h, a)]]

(* Variant: the credential also travels in the request parameters *)
Submit_KeyInParams(h, a, env) ==
    IF ~ApiKeySet(env)
    THEN [kind |-> "return", value |-> CredentialError, client |-> FALSE]
    ELSE IF h = ListTasksUnsupported
    THEN [kind |-> "return", value |-> UnsupportedEnvelope, client |-> TRUE]
    ELSE [kind |-> "request", client |-> TRUE,
          request |-> [endpoint |-> Endpoint(h),
                       params |-> BuildParams(h, a)
                                  @@ [apiKey |-> env.RUNWAY_API_KEY]]]

Submit(h, a, env) ==
    IF ~ApiKeySet(env)
    THEN [kind |-> "return", value |-> CredentialError, client |-> FALSE]
    ELSE IF h = ListTasksUnsupported
    THEN [kind |-> "return", value |-> UnsupportedEnvelope, client |-> TRUE]
    ELSE [kind |-> "request", client |-> TRUE,
          request |-> [endpoint |-> Endpoint(h), params |-> BuildParams(h, a)]]

(* From the resumption after the vendor call to the return statement *)
Settle(h, a, o, now) ==
    TryCatch(h, a, IF o.kind = "ok" THEN Return(OnSuccess(h, a, o.value, now))
                   ELSE Throw(o.error))

---------------------------------------------------------------------------
(* State machine *)

NoOp == "none"

NotReported == "none"

(* A second invocation the host may have in flight at the same time: its   *)
(* own op, args, calls, client, request, resp, waitingOn and result.       *)
NoInvocation ==
    [pc |-> "idle", op |-> NoOp, args |-> Empty, calls |-> 0, client |-> FALSE,
     request |-> Empty, resp |-> NoResp, waitingOn |-> 0, result |-> NoResult]

(* Variant: the defaults are written back into the caller's object *)
ArgsAfter_DefaultsWritten(h, a) ==
    IF h \in GenerationOps THEN a @@ ("model" :> DefaultModel(h)) ELSE a

(* The caller's argument object once the handler has built its request:    *)
(* destructuring with defaults and the params literal copy values out of   *)
(* it and write nothing back.                                              *)
ArgsAfter(h, a) == a

(* Variant: the arguments are kept in a variable of the module, which the  *)
(* invocations of one tool share                                           *)
Frame_ModuleLevel(h, own, g, foreign) ==
    IF g = h /\ DOMAIN foreign = DOMAIN own THEN foreign ELSE own

(* args and everything destructured from it are parameters and consts of   *)
(* executeFunction: an invocation of tool h reads its own, whatever        *)
(* another invocation (of tool g) holds.                                   *)
Frame(h, own, g, foreign) == own

NothingReported == [n \in TaskNumbers |-> NotReported]

(* The history of a series of GetTaskStatus invocations: for each task id  *)
(* the status the latest successful envelope of the series showed to the   *)
(* caller.  The series ends when the host invokes another operation.       *)
Series(history, h) == IF h = "GetTaskStatus" THEN history ELSE NothingReported

Report(history, id, r) ==
    IF /\ r.kind = "return"
       /\ r.value.success
       /\ Has(r.value, "status")
       /\ \E n \in TaskNumbers : TaskId(n) = id
    THEN [history EXCEPT ![NumberOf(id)] = r.value.status]
    ELSE history

Init ==
    /\ processEnv \in Opt("RUNWAY_API_KEY", ApiKeys)
    /\ tasks \in [TaskNumbers -> TaskStates]
    /\ \A n \in TaskNumbers : tasks[n] = Absent =>
            \A m \in TaskNumbers : m > n => tasks[m] = Absent
    /\ pc = "idle"
    /\ op = NoOp
    /\ args = Empty
    /\ calls = 0
    /\ client = FALSE
    /\ request = Empty
    /\ resp = NoResp
    /\ waitingOn = 0
    /\ result = NoResult
    /\ reported = NothingReported
    /\ registry = discoverTools
    /\ other = NoInvocation

(* The host calls executeFunction(args): the code up to `await import` *)
Invoke(h, a) ==
    /\ pc = "idle"
    /\ h = ListTasksUnsupported \/ \E i \in DOMAIN registry : registry[i].name = h
    /\ LET r == TryCatch(h, a, LocalChecks(h, a)) IN
        /\ pc' = IF r.kind = "continue" THEN "importing" ELSE "done"
        /\ result' = IF r.kind = "continue" THEN NoResult ELSE r
    /\ op' = h
    /\ args' = a
    /\ calls' = 0
    /\ client' = FALSE
    /\ request' = Empty
    /\ resp' = NoResp
    /\ waitingOn' = 0
    /\ reported' = Series(reported, h)
    /\ UNCHANGED <<processEnv, tasks, registry, other>>

(* Credential check, client construction, request submission *)
AfterImport ==
    /\ pc = "importing"
    /\ LET s == Submit(op, Frame(op, args, other.op, other.args), processEnv) IN
        /\ client' = s.client
        /\ IF s.kind = "return"
           THEN /\ pc' = "done"
                /\ result' = Return(s.value)
                /\ UNCHANGED <<request, calls>>
           ELSE /\ pc' = "requested"
                /\ request' = s.request
                /\ calls' = calls + 1
                /\ UNCHANGED result
    /\ args' = ArgsAfter(op, args)
    /\ UNCHANGED <<processEnv, tasks, op, resp, waitingOn, reported, registry,
                   other>>

(* Variant: a failed vendor call sends the handler back to submit again *)
AfterVendor_RetryOnError(o) == IF o.kind = "error" THEN "importing" ELSE "done"

(* Where the handler goes once the awaited vendor promise has settled: to  *)
(* the return statement of the try block or of the catch block; there is   *)
(* no loop around the call.                                                *)
AfterVendor(o) == "done"

Finish(o, now) ==
    /\ resp' = o
    /\ pc' = AfterVendor(o)
    /\ result' = IF AfterVendor(o) = "done" THEN Settle(op, args, o, now)
                 ELSE NoResult
    /\ waitingOn' = 0
    /\ UNCHANGED <<processEnv, op, args, calls, client, request, registry, other>>

(* client.tasks.retrieve(taskId) answers *)
RetrieveRespond ==
    /\ pc = "requested"
    /\ op = "GetTaskStatus"
    /\ \E o \in RetrieveOutcomes(tasks, request.params.taskId) : Finish(o, 0)
    /\ reported' = Report(reported, request.params.taskId, result')
    /\ UNCHANGED tasks

(* client.tasks.cancel(taskId) answers *)
CancelRespond ==
    /\ pc = "requested"
    /\ op = "CancelTask"
    /\ \E o \in CancelOutcomes(tasks, request.params.taskId), now \in Times :
        /\ Finish(o, now)
        /\ tasks' = AfterCancel(tasks, request.params.taskId, o)
    /\ UNCHANGED reported

(* client.tasks.list(params) answers *)
ListRespond ==
    /\ pc = "requested"
    /\ op = "ListTasks"
    /\ \E o \in ListOutcomes(tasks) : Finish(o, 0)
    /\ UNCHANGED <<tasks, reported>>

(* create(params) is accepted: the vendor starts a task and the handler    *)
(* stays suspended in waitForTaskOutput                                    *)
CreateAccept ==
    /\ pc = "requested"
    /\ op \in GenerationOps
    /\ FreeNumbers(tasks) # {}
    /\ LET n == CHOOSE m \in FreeNumbers(tasks) :
                    \A k \in FreeNumbers(tasks) : m <= k IN
        /\ tasks' = [tasks EXCEPT ![n] = Pending]
        /\ waitingOn' = n
    /\ pc' = "polling"
    /\ UNCHANGED <<processEnv, op, args, calls, client, request, resp, result,
                   reported, registry, other>>

(* create(params) is rejected *)
CreateReject ==
    /\ pc = "requested"
    /\ op \in GenerationOps
    /\ \E e \in CreateErrors : Finish(Err(e), 0)
    /\ UNCHANGED <<tasks, reported>>

(* waitForTaskOutput settles *)
WaitSettle ==
    /\ pc = "polling"
    /\ \E o \in WaitOutcomes(tasks, waitingOn) : Finish(o, 0)
    /\ UNCHANGED <<tasks, reported>>

(* The vendor works on a task, or another client of the account cancels it *)
VendorProgress(n) ==
    /\ \/ tasks[n] = Pending /\ tasks' = [tasks EXCEPT ![n] = Running]
       \/ tasks[n] = Running /\ \E t \in {"SUCCEEDED", "FAILED"} :
                                    tasks' = [tasks EXCEPT ![n] = t]
       \/ tasks[n] \in {Pending, Running} /\ tasks' = [tasks EXCEPT ![n] = "CANCELED"]
    /\ UNCHANGED <<processEnv, pc, op, args, calls, client, request, resp,
                   waitingOn, result, reported, registry, other>>

(* The host has received the settled promise *)
Deliver ==
    /\ pc = "done"
    /\ pc' = "idle"
    /\ op' = NoOp
    /\ args' = Empty
    /\ calls' = 0
    /\ client' = FALSE
    /\ request' = Empty
    /\ resp' = NoResp
    /\ waitingOn' = 0
    /\ result' = NoResult
    /\ UNCHANGED <<processEnv, tasks, reported, registry, other>>

(* The same handlers, run by the second invocation *)
OtherInvoke(h, a) ==
    /\ other.pc = "idle"
    /\ \E i \in DOMAIN registry : registry[i].name = h
    /\ LET r == TryCatch(h, a, LocalChecks(h, a)) IN
        other' = [NoInvocation EXCEPT
                    !.pc = IF r.kind = "continue" THEN "importing" ELSE "done",
                    !.result = IF r.kind = "continue" THEN NoResult ELSE r,
                    !.op = h,
                    !.args = a]
    /\ UNCHANGED <<processEnv, tasks, pc, op, args, calls, client, request, resp,
                   waitingOn, result, reported, registry>>

OtherAfterImport ==
    /\ other.pc = "importing"
    /\ LET s == Submit(other.op, Frame(other.op, other.args, op, args), processEnv) IN
        other' = IF s.kind = "return"
                 THEN [other EXCEPT !.client = s.client, !.pc = "done",
                                    !.result = Return(s.value),
                                    !.args = ArgsAfter(other.op, @)]
                 ELSE [other EXCEPT !.client = s.client, !.pc = "requested",
                                    !.request = s.request, !.calls = @ + 1,
                                    !.args = ArgsAfter(other.op, @)]
    /\ UNCHANGED <<processEnv, tasks, pc, op, args, calls, client, request, resp,
                   waitingOn, result, reported, registry>>

OtherFinish(o, now) ==
    /\ other' = [other EXCEPT
                    !.resp = o,
                    !.pc = AfterVendor(o),
                    !.result = IF AfterVendor(o) = "done"
                               THEN Settle(other.op, other.args, o, now)
                               ELSE NoResult,
                    !.waitingOn = 0]
    /\ UNCHANGED <<processEnv, pc, op, args, calls, client, request, resp,
                   waitingOn, result, reported, registry>>

OtherCancelRespond ==
    /\ other.pc = "requested"
    /\ other.op = "CancelTask"
    /\ \E o \in CancelOutcomes(tasks, other.request.params.taskId), now \in Times :
        /\ OtherFinish(o, now)
        /\ tasks' = AfterCancel(tasks, other.request.params.taskId, o)

OtherCreateAccept ==
    /\ other.pc = "requested"
    /\ other.op \in GenerationOps
    /\ FreeNumbers(tasks) # {}
    /\ LET n == CHOOSE m \in FreeNumbers(tasks) :
                    \A k \in FreeNumbers(tasks) : m <= k IN
        /\ tasks' = [tasks EXCEPT ![n] = Pending]
        /\ other' = [other EXCEPT !.pc = "polling", !.waitingOn = n]
    /\ UNCHANGED <<processEnv, pc, op, args, calls, client, request, resp,
                   waitingOn, result, reported, registry>>

OtherCreateReject ==
    /\ other.pc = "requested"
    /\ other.op \in GenerationOps
    /\ \E e \in CreateErrors : OtherFinish(Err(e), 0)
    /\ UNCHANGED tasks

OtherWaitSettle ==
    /\ other.pc = "polling"
    /\ \E o \in WaitOutcomes(tasks, other.waitingOn) : OtherFinish(o, 0)
    /\ UNCHANGED tasks

OtherDeliver ==
    /\ other.pc = "done"
    /\ other' = NoInvocation
    /\ UNCHANGED <<processEnv, tasks, pc, op, args, calls, client, request, resp,
                   waitingOn, result, reported, registry>>

Next ==
    \/ \E h \in Handlers : \E a \in ArgsOf(h) : Invoke(h, a)
    \/ AfterImport
    \/ RetrieveRespond
    \/ CancelRespond
    \/ ListRespond
    \/ CreateAccept
    \/ CreateReject
    \/ WaitSettle
    \/ \E n \in TaskNumbers : VendorProgress(n)
    \/ Deliver

Spec == Init /\ [][Next]_vars

---------------------------------------------------------------------------
(* Two invocations in flight at once.  The host starts with tasks yet to   *)
(* be created and the credential set, and calls with well-formed           *)
(* arguments.                                                              *)

ConcurrentTools == {"GenerateImage", "GenerateVideoFromImage", "GetTaskStatus",
                    "ListTasks", "CancelTask"}

OtherTools == {"GenerateVideoFromImage", "CancelTask"}

ConcurrentArgsOf(h) ==
    CASE h = "GenerateImage" -> {[promptText |-> "a red fox in snow"]}
      [] h = "GenerateVideoFromImage" ->
            {[promptImage |-> "https://example.com/in", duration |-> d] :
                d \in {5, 10}}
      [] h \in TaskOps -> {[taskId |-> TaskId(n)] : n \in TaskNumbers}
      [] h \in ListOps -> {Empty}

InitConcurrent ==
    /\ Init
    /\ processEnv = [RUNWAY_API_KEY |-> "key_1"]
    /\ \A n \in TaskNumbers : tasks[n] = Absent

NextConcurrent ==
    \/ \E h \in ConcurrentTools : \E a \in ConcurrentArgsOf(h) : Invoke(h, a)
    \/ AfterImport
    \/ RetrieveRespond
    \/ CancelRespond
    \/ ListRespond
    \/ CreateAccept
    \/ CreateReject
    \/ WaitSettle
    \/ \E n \in TaskNumbers : VendorProgress(n)
    \/ Deliver
    \/ \E h \in OtherTools : \E a \in ConcurrentArgsOf(h) : OtherInvoke(h, a)
    \/ OtherAfterImport
    \/ OtherCancelRespond
    \/ OtherCreateAccept
    \/ OtherCreateReject
    \/ OtherWaitSettle
    \/ OtherDeliver

(* The wait inside waitForTaskOutput keeps polling, so once the task has   *)
(* ended at the vendor the wait settles.                                   *)
WaitObservesEnd == pc = "polling" /\ tasks[waitingOn] \in Terminal /\ WaitSettle

OtherWaitObservesEnd ==
    other.pc = "polling" /\ tasks[other.waitingOn] \in Terminal /\ OtherWaitSettle

SpecConcurrent ==
    /\ InitConcurrent
    /\ [][NextConcurrent]_vars
    /\ WF_vars(WaitObservesEnd)
    /\ WF_vars(OtherWaitObservesEnd)

---------------------------------------------------------------------------
(* Vocabulary of the properties *)

Done == pc = "done"

Returned == Done /\ result.kind = "return"

Words(text) == {text[i] : i \in 1..Len(text)}

VendorRaised == resp.kind = "error"

VendorAnswered == resp.kind = "ok"

RequiredParams(h) ==
    CASE h \in {"GenerateImage", "GenerateVideoFromText"} -> {"promptText"}
      [] h = "GenerateImageWithReferences" -> {"promptText", "referenceImages"}
      [] h = "GenerateVideoFromImage" -> {"promptImage"}
      [] h = "GenerateVideoFromVideo" -> {"promptVideo", "promptText"}
      [] h = "UpscaleVideo" -> {"promptVideo"}
      [] h \in TaskOps -> {"taskId"}
      [] OTHER -> {}

NoList(a) ==
    \/ ~Has(a, "referenceImages")
    \/ ~a.referenceImages.array
    \/ a.referenceImages.items = <<>>

MissingOrEmpty(a, p) ==
    IF p = "referenceImages" THEN NoList(a)
    ELSE ~Has(a, p) \/ a[p] = ""

LacksUri(img) == ~Has(img, "uri") \/ img.uri = ""

BadIndexes(items) == {i \in 0..(Len(items) - 1) : LacksUri(items[i + 1])}

LowestBadIndex(items) ==
    CHOOSE i \in BadIndexes(items) : \A j \in BadIndexes(items) : i <= j

WellFormedRefs(a) ==
    \/ ~Has(a, "referenceImages")
    \/ /\ a.referenceImages.array
       /\ BadIndexes(a.referenceImages.items) = {}

(* The arguments get past every check the handler makes before it reads    *)
(* the credential.                                                         *)
PassesLocalChecks(h, a) ==
    CASE h = "GenerateVideoFromImage" -> ~MissingOrEmpty(a, "promptImage")
      [] h = "GenerateVideoFromVideo" ->
            /\ ~MissingOrEmpty(a, "promptVideo")
            /\ ~MissingOrEmpty(a, "promptText")
            /\ WellFormedRefs(a)
      [] h = "UpscaleVideo" -> ~MissingOrEmpty(a, "promptVideo")
      [] h \in TaskOps -> ~MissingOrEmpty(a, "taskId")
      [] h = "GenerateImageWithReferences" -> ~NoList(a) /\ WellFormedRefs(a)
      [] OTHER -> TRUE

CredentialEnvelope ==
    [success |-> FALSE,
     error |-> <<"RUNWAY_API_KEY", "environment", "variable", "is", "not", "set.">>]

---------------------------------------------------------------------------
(* C1: for every operation and every required parameter of it, an          *)
(* invocation in which that parameter is missing or empty makes no vendor  *)
(* call and returns success = false with an error that names a missing     *)
(* required parameter.                                                     *)
C1_MissingRequiredRejected ==
    (op # NoOp /\ \E p \in RequiredParams(op) : MissingOrEmpty(args, p)) =>
        /\ calls = 0
        /\ Done =>
            /\ result.kind = "return"
            /\ result.value.success = FALSE
            /\ \E q \in RequiredParams(op) :
                    MissingOrEmpty(args, q) /\ q \in Words(result.value.error)

---------------------------------------------------------------------------
(* C2: every invocation that ends, whatever its arguments and whatever the *)
(* vendor answered or raised, ends by returning an envelope (an object     *)
(* with a boolean success); none ends by raising an error to the host.     *)
C2_AlwaysReturnsEnvelope ==
    Done =>
        /\ result.kind = "return"
        /\ Has(result.value, "success")
        /\ result.value.success \in BOOLEAN

C2_Witness ==
    /\ Done
    /\ VendorRaised
    /\ result.kind = "return"
    /\ result.value.success = FALSE

(* C2, second case: an error raised by the handler's own code inside the   *)
(* try block (reading .length of a null referenceImages) is returned as    *)
(* data as well.                                                           *)
C2_LocalThrowWitness ==
    /\ Done
    /\ op = "GenerateVideoFromVideo"
    /\ Has(args, "referenceImages")
    /\ ~args.referenceImages.array
    /\ result.kind = "return"
    /\ Has(result.value, "message")

---------------------------------------------------------------------------
(* C3: every returned envelope has exactly one of two shapes: success =    *)
(* true with the operation's result field and neither error nor details,   *)
(* or success = false with a non-empty error and none of status, output,   *)
(* imageUrl, videoUrl.                                                     *)
ResultField(h) ==
    CASE h \in {"GenerateImage", "GenerateImageWithReferences"} -> "imageUrl"
      [] h \in GenerationOps -> "videoUrl"
      [] h \in TaskOps -> "taskId"
      [] h \in ListOps -> "tasks"

SuccessShape(h, e) ==
    /\ e.success = TRUE
    /\ Has(e, ResultField(h))
    /\ ~Has(e, "error")
    /\ ~Has(e, "details")

FailureShape(e) ==
    /\ e.success = FALSE
    /\ Has(e, "error")
    /\ Len(e.error) > 0
    /\ DOMAIN e \cap {"status", "output", "imageUrl", "videoUrl"} = {}

C3_ExactlyOneShape ==
    Returned =>
        /\ SuccessShape(op, result.value) \/ FailureShape(result.value)
        /\ ~(SuccessShape(op, result.value) /\ FailureShape(result.value))

C3_Witness ==
    /\ Returned
    /\ op = "CancelTask"
    /\ result.value.success = TRUE
    /\ Has(result.value, "message")

---------------------------------------------------------------------------
(* C4 as stated: with the credential unset, every invocation, whatever its *)
(* arguments, returns the missing-credential envelope and makes no vendor  *)
(* call.                                                                   *)
C4_AnyArgumentsCredentialError ==
    ~ApiKeySet(processEnv) =>
        /\ calls = 0
        /\ Done => result = Return(CredentialEnvelope)

(* C4 amended: with the credential unset, no invocation makes a vendor     *)
(* call or constructs a client; one whose arguments pass the operation's   *)
(* local parameter checks returns the missing-credential envelope, and one *)
(* whose arguments fail a local check returns another failure envelope,    *)
(* the one of that check.                                                  *)
C4_CredentialErrorAfterLocalChecks ==
    (~Has(processEnv, "RUNWAY_API_KEY") \/ processEnv.RUNWAY_API_KEY = "") =>
        /\ calls = 0
        /\ ~client
        /\ Done /\ PassesLocalChecks(op, args) =>
                result = Return(CredentialEnvelope)
        /\ Done /\ ~PassesLocalChecks(op, args) =>
                /\ result.kind = "return"
                /\ result.value.success = FALSE
                /\ result.value # CredentialEnvelope

C4_Witness ==
    /\ Done
    /\ Has(processEnv, "RUNWAY_API_KEY")
    /\ processEnv.RUNWAY_API_KEY = ""
    /\ op = "UpscaleVideo"
    /\ Has(args, "promptVideo")
    /\ args.promptVideo # ""
    /\ result = Return(CredentialEnvelope)

---------------------------------------------------------------------------
(* C5: a GenerateVideoFromImage invocation whose promptImage is missing or *)
(* empty makes no vendor call and returns exactly {success: false, error:  *)
(* 'promptImage is required'}, whatever the other arguments and whether or *)
(* not the credential is set.                                              *)
C5_PromptImageRequired ==
    (op = "GenerateVideoFromImage" /\ MissingOrEmpty(args, "promptImage")) =>
        /\ calls = 0
        /\ Done
        /\ result = Return([success |-> FALSE,
                            error |-> <<"promptImage", "is", "required">>])

C5_Witness ==
    /\ Done
    /\ op = "GenerateVideoFromImage"
    /\ MissingOrEmpty(args, "promptImage")
    /\ Has(args, "promptText")
    /\ Has(args, "seed")
    /\ ApiKeySet(processEnv)
    /\ result.value.error = <<"promptImage", "is", "required">>

---------------------------------------------------------------------------
(* The text names a position: the word "index" followed by a numeral *)
IdentifiesIndex(text, i) ==
    \E k \in 1..(Len(text) - 1) : text[k] = "index" /\ text[k + 1] = ToString(i)

IdentifiesSomeIndex(text) == \E i \in 0..MaxRefs : IdentifiesIndex(text, i)

RefItems == args.referenceImages.items

WithReferences == op = "GenerateImageWithReferences"

EmptyList == Has(args, "referenceImages") /\ args.referenceImages.array /\ RefItems = <<>>

ListWithBadElement ==
    /\ Has(args, "referenceImages")
    /\ args.referenceImages.array
    /\ BadIndexes(RefItems) # {}

PassedValidation ==
    IF ApiKeySet(processEnv) THEN calls = 1
    ELSE result = Return(CredentialEnvelope)

(* C6 as stated: for GenerateImageWithReferences an empty list, and any    *)
(* list with an element lacking uri, is rejected locally with an error     *)
(* that identifies an index, the lowest index of an element lacking uri.   *)
C6_RejectedWithIndex ==
    (WithReferences /\ Done /\ (EmptyList \/ ListWithBadElement)) =>
        /\ calls = 0
        /\ result.kind = "return"
        /\ result.value.success = FALSE
        /\ IdentifiesSomeIndex(result.value.error)
        /\ ListWithBadElement =>
                IdentifiesIndex(result.value.error, LowestBadIndex(RefItems))

(* C6 amended: an empty list is rejected locally with 'referenceImages     *)
(* must be a non-empty array', which names no index; a non-empty list with *)
(* an element whose uri is missing or empty is rejected locally with       *)
(* 'Reference image at index i must have a 'uri' property', i the lowest   *)
(* (0-based) index of such an element; every list of 1 to 4 elements that  *)
(* all have a uri passes validation.                                       *)
C6_ReferenceValidation ==
    WithReferences =>
        /\ EmptyList =>
            /\ calls = 0
            /\ Done
            /\ result = Return([success |-> FALSE,
                                error |-> <<"referenceImages", "must", "be", "a",
                                            "non-empty", "array">>])
            /\ ~IdentifiesSomeIndex(result.value.error)
        /\ ListWithBadElement =>
            /\ calls = 0
            /\ Done
            /\ result = Return([success |-> FALSE,
                                error |-> <<"Reference", "image", "at", "index",
                                            ToString(LowestBadIndex(RefItems)),
                                            "must", "have", "a", "'uri'",
                                            "property">>])
        /\ (/\ Has(args, "referenceImages")
            /\ args.referenceImages.array
            /\ Len(RefItems) \in 1..4
            /\ BadIndexes(RefItems) = {}
            /\ Done) => PassedValidation

C6_Witness ==
    /\ WithReferences
    /\ Done
    /\ ListWithBadElement
    /\ Len(RefItems) = 4
    /\ BadIndexes(RefItems) = {1, 3}
    /\ IdentifiesIndex(result.value.error, 1)

C6_PassWitness ==
    /\ WithReferences
    /\ Done
    /\ Has(args, "referenceImages")
    /\ Len(RefItems) = 4
    /\ BadIndexes(RefItems) = {}
    /\ calls = 1

---------------------------------------------------------------------------
(* A cancel request reached the vendor for a task it holds in a terminal   *)
(* state, and the vendor raised an error                                   *)
CancelOfTerminal ==
    /\ op = "CancelTask"
    /\ Done
    /\ VendorRaised
    /\ Known(tasks, args.taskId)
    /\ tasks[NumberOf(args.taskId)] \in Terminal

VendorSaidNotCancelable ==
    /\ VendorRaised
    /\ Has(resp.error, "status")
    /\ resp.error.status = 400
    /\ Includes(resp.error.message, <<"cannot", "be", "canceled">>)

(* C7 as stated: CancelTask on a task the vendor holds in a terminal state *)
(* (the vendor refuses with status 400, 'cannot be canceled') returns      *)
(* success = false, error 'Task cannot be canceled' and the requested id.  *)
C7_NotCancelableShortText ==
    (CancelOfTerminal /\ VendorSaidNotCancelable) =>
        result = Return([success |-> FALSE,
                         error |-> <<"Task", "cannot", "be", "canceled">>,
                         taskId |-> args.taskId])

(* C7 amended: CancelTask on a task the vendor holds in a terminal state,  *)
(* when the vendor refuses with status 400 and a message containing        *)
(* 'cannot be canceled', returns success = false, error 'Task cannot be    *)
(* canceled (may already be completed or failed)' and the requested id;    *)
(* it never returns 'Task not found' for such an id, and returns the       *)
(* generic failure only when the vendor call fails in another way.         *)
C7_NotCancelable ==
    /\ (op = "CancelTask" /\ Done /\ VendorSaidNotCancelable) =>
            result = Return([success |-> FALSE,
                             error |-> <<"Task", "cannot", "be", "canceled",
                                         "(may", "already", "be", "completed",
                                         "or", "failed)">>,
                             taskId |-> args.taskId])
    /\ CancelOfTerminal =>
            /\ result.kind = "return"
            /\ result.value.success = FALSE
            /\ result.value.error # <<"Task", "not", "found">>
            /\ result.value.taskId = args.taskId
            /\ Has(result.value, "message") => ~VendorSaidNotCancelable

C7_Witness ==
    /\ CancelOfTerminal
    /\ VendorSaidNotCancelable
    /\ tasks[NumberOf(args.taskId)] = "SUCCEEDED"
    /\ result.value.taskId = args.taskId
    /\ Len(result.value.error) = 10

---------------------------------------------------------------------------
VendorSaidNotFound ==
    /\ VendorRaised
    /\ Has(resp.error, "status")
    /\ resp.error.status = 404

(* C8: GetTaskStatus and CancelTask on a task id unknown to the vendor     *)
(* (the vendor answers with status 404) return success = false, error      *)
(* 'Task not found' and the requested taskId unchanged.                    *)
C8_TaskNotFound ==
    (op \in {"GetTaskStatus", "CancelTask"} /\ Done /\ VendorSaidNotFound) =>
        result = Return([success |-> FALSE,
                         error |-> <<"Task", "not", "found">>,
                         taskId |-> args.taskId])

C8_Witness ==
    /\ op = "GetTaskStatus"
    /\ Done
    /\ VendorSaidNotFound
    /\ ~Known(tasks, args.taskId)
    /\ result.value.taskId = "ghost"

C8_CancelWitness ==
    /\ op = "CancelTask"
    /\ Done
    /\ VendorSaidNotFound
    /\ ~Known(tasks, args.taskId)
    /\ result.value.taskId = args.taskId

---------------------------------------------------------------------------
(* What a raised error matches, whichever handler catches it *)
MatchesFailedTask(error) == error.name = "TaskFailedError"

MatchesNotFound(error) == Has(error, "status") /\ error.status = 404

MatchesNotCancelable(error) ==
    /\ Has(error, "status")
    /\ error.status = 400
    /\ Has(error, "message")
    /\ Includes(error.message, <<"cannot", "be", "canceled">>)

IsGenericEnvelope(e) ==
    /\ Len(e.error) > 4
    /\ SubSeq(e.error, 1, 4) = <<"An", "error", "occurred", "while">>

IsFailedTaskEnvelope(e) ==
    /\ Len(e.error) > 2
    /\ SubSeq(e.error, Len(e.error) - 1, Len(e.error)) = <<"task", "failed">>

IsNotFoundEnvelope(e) == e.error = <<"Task", "not", "found">>

IsNotCancelableEnvelope(e) ==
    /\ Len(e.error) > 4
    /\ SubSeq(e.error, 1, 4) = <<"Task", "cannot", "be", "canceled">>

(* C9 as stated: in every operation an error raised at the vendor boundary *)
(* that matches failed-task or not-found is never reported with the        *)
(* generic classification.                                                 *)
C9_SpecificNeverGeneric ==
    (Done /\ VendorRaised /\
     (MatchesFailedTask(resp.error) \/ MatchesNotFound(resp.error))) =>
        ~IsGenericEnvelope(result.value)

(* C9 amended: each operation tries only the classifications its own catch *)
(* block has, in the stated relative order: a generation operation tries   *)
(* failed-task then generic; GetTaskStatus tries not-found then generic;   *)
(* CancelTask tries not-found, then not-cancelable, then generic;          *)
(* ListTasks only generic.  So a failed-task error is never generic in a   *)
(* generation operation and a 404 is never generic in GetTaskStatus or     *)
(* CancelTask, while a 404 raised in a generation operation is reported as *)
(* that operation's generic failure.                                       *)
C9_PerOperationClassification ==
    (Done /\ VendorRaised) =>
        LET e == result.value
            x == resp.error IN
        /\ result.kind = "return"
        /\ e.success = FALSE
        /\ op \in GenerationOps =>
            IF MatchesFailedTask(x) THEN IsFailedTaskEnvelope(e)
            ELSE IsGenericEnvelope(e)
        /\ op = "GetTaskStatus" =>
            IF MatchesNotFound(x) THEN IsNotFoundEnvelope(e)
            ELSE IsGenericEnvelope(e)
        /\ op = "CancelTask" =>
            IF MatchesNotFound(x) THEN IsNotFoundEnvelope(e)
            ELSE IF MatchesNotCancelable(x) THEN IsNotCancelableEnvelope(e)
            ELSE IsGenericEnvelope(e)
        /\ op = "ListTasks" => IsGenericEnvelope(e)

C9_Witness ==
    /\ Done
    /\ VendorRaised
    /\ op \in GenerationOps
    /\ MatchesNotFound(resp.error)
    /\ IsGenericEnvelope(result.value)

C9_FailedTaskWitness ==
    /\ Done
    /\ VendorRaised
    /\ op = "UpscaleVideo"
    /\ MatchesFailedTask(resp.error)
    /\ IsFailedTaskEnvelope(result.value)

---------------------------------------------------------------------------
(* C10: for every generation operation, when the vendor task completes     *)
(* successfully the envelope has success = true, the vendor task's id and  *)
(* status, and as imageUrl (image operations) or videoUrl (video           *)
(* operations) the first element of the vendor's output collection, or     *)
(* null when the collection is absent or empty.                            *)
C10_GenerationSuccess ==
    (op \in GenerationOps /\ Done /\ VendorAnswered) =>
        LET e == result.value
            task == resp.value
            url == IF Has(task, "output") /\ task.output # <<>>
                   THEN Head(task.output) ELSE "null" IN
        /\ result.kind = "return"
        /\ e.success = TRUE
        /\ e.taskId = task.id
        /\ e.status = task.status
        /\ IF op \in {"GenerateImage", "GenerateImageWithReferences"}
           THEN Has(e, "imageUrl") /\ e.imageUrl = url
           ELSE Has(e, "videoUrl") /\ e.videoUrl = url

C10_Witness ==
    /\ op = "GenerateImage"
    /\ Done
    /\ VendorAnswered
    /\ Has(resp.value, "output")
    /\ Len(resp.value.output) = 2
    /\ result.value.imageUrl = "url1"
    /\ result.value.status = "SUCCEEDED"

C10_NullWitness ==
    /\ op = "GenerateVideoFromVideo"
    /\ Done
    /\ VendorAnswered
    /\ ~Has(resp.value, "output")
    /\ result.value.videoUrl = "null"

---------------------------------------------------------------------------
(* C11: for every generation operation, when the vendor raises a           *)
(* TaskFailedError the envelope is success = false with the error          *)
(* "<operation> task failed", details equal to the vendor's diagnostic     *)
(* payload unchanged (absent when the error carries none), taskId equal to *)
(* the id inside the payload when it has one and absent otherwise, and     *)
(* nothing else.                                                           *)
OperationWords(h) ==
    CASE h \in {"GenerateImage", "GenerateImageWithReferences"} ->
            <<"Image", "generation">>
      [] h \in {"GenerateVideoFromText", "GenerateVideoFromImage"} ->
            <<"Video", "generation">>
      [] h = "GenerateVideoFromVideo" -> <<"Video-to-video", "generation">>
      [] h = "UpscaleVideo" -> <<"Video", "upscaling">>

PayloadHasId(error) == Has(error, "taskDetails") /\ Has(error.taskDetails, "id")

C11_TaskFailedEnvelope ==
    (op \in GenerationOps /\ Done /\ VendorRaised
     /\ resp.error.name = "TaskFailedError") =>
        LET e == result.value
            x == resp.error IN
        /\ result.kind = "return"
        /\ e.success = FALSE
        /\ e.error = OperationWords(op) \o <<"task", "failed">>
        /\ Has(e, "details") <=> Has(x, "taskDetails")
        /\ Has(x, "taskDetails") => e.details = x.taskDetails
        /\ Has(e, "taskId") <=> PayloadHasId(x)
        /\ PayloadHasId(x) => e.taskId = x.taskDetails.id
        /\ DOMAIN e \subseteq {"success", "error", "details", "taskId"}

C11_Witness ==
    /\ op = "UpscaleVideo"
    /\ Done
    /\ VendorRaised
    /\ resp.error.name = "TaskFailedError"
    /\ PayloadHasId(resp.error)
    /\ result.value.taskId = TaskId(1)
    /\ result.value.details.status = "FAILED"

(* C11, second case: the payload carries no id *)
C11_NoIdWitness ==
    /\ op = "GenerateVideoFromVideo"
    /\ Done
    /\ VendorRaised
    /\ resp.error.name = "TaskFailedError"
    /\ Has(resp.error, "taskDetails")
    /\ ~Has(resp.error.taskDetails, "id")
    /\ ~Has(result.value, "taskId")
    /\ result.value.success = FALSE

---------------------------------------------------------------------------
(* C12: for every operation, an error raised at the vendor boundary that   *)
(* matches none of the specific classifications (failed task, not found,   *)
(* not cancelable) yields success = false with an error text that is fixed *)
(* for the operation, whatever the error, and message equal to the         *)
(* error's own text; GetTaskStatus and CancelTask also echo the requested  *)
(* taskId, and the envelope has no other field.                            *)
ScopedText(h) ==
    CASE h = "GenerateImage" ->
            <<"An", "error", "occurred", "while", "generating", "the", "image">>
      [] h = "GenerateImageWithReferences" ->
            <<"An", "error", "occurred", "while", "generating", "the", "image",
              "with", "references">>
      [] h = "GenerateVideoFromText" ->
            <<"An", "error", "occurred", "while", "generating", "the", "video",
              "from", "text">>
      [] h = "GenerateVideoFromImage" ->
            <<"An", "error", "occurred", "while", "generating", "the", "video",
              "from", "image">>
      [] h = "GenerateVideoFromVideo" ->
            <<"An", "error", "occurred", "while", "generating", "the", "video",
              "from", "video">>
      [] h = "UpscaleVideo" ->
            <<"An", "error", "occurred", "while", "upscaling", "the", "video">>
      [] h = "GetTaskStatus" ->
            <<"An", "error", "occurred", "while", "retrieving", "the", "task",
              "status">>
      [] h = "CancelTask" ->
            <<"An", "error", "occurred", "while", "canceling", "the", "task">>
      [] h \in ListOps ->
            <<"An", "error", "occurred", "while", "listing", "tasks">>

Unclassified(error) ==
    /\ ~MatchesFailedTask(error)
    /\ ~MatchesNotFound(error)
    /\ ~MatchesNotCancelable(error)

C12_GenericEnvelope ==
    (Done /\ VendorRaised /\ Unclassified(resp.error)) =>
        LET e == result.value IN
        /\ result.kind = "return"
        /\ e.success = FALSE
        /\ e.error = ScopedText(op)
        /\ Has(e, "message")
        /\ e.message = resp.error.message
        /\ IF op \in TaskOps
           THEN /\ DOMAIN e = {"success", "error", "message", "taskId"}
                /\ e.taskId = args.taskId
           ELSE DOMAIN e = {"success", "error", "message"}

C12_Witness ==
    /\ op = "CancelTask"
    /\ Done
    /\ VendorRaised
    /\ Unclassified(resp.error)
    /\ result.value.message = <<"Connection", "error.">>
    /\ result.value.taskId = TaskId(1)

(* C12, second case: a 400 whose text is not the not-cancelable one, in a  *)
(* generation operation.                                                   *)
C12_BadRequestWitness ==
    /\ op = "GenerateVideoFromImage"
    /\ Done
    /\ VendorRaised
    /\ Has(resp.error, "status")
    /\ resp.error.status = 400
    /\ result.value.message = <<"400", "Invalid", "request">>

---------------------------------------------------------------------------
(* C13: across any sequence of GetTaskStatus invocations for one task id,  *)
(* every successful envelope carries that task id, and the status it       *)
(* reports is never earlier, in the order PENDING, RUNNING, {SUCCEEDED,    *)
(* FAILED, CANCELED}, than the status the previous successful envelope for *)
(* that id reported, and is the same once that was a terminal one.         *)
Rank(status) ==
    CASE status = NotReported -> 0
      [] status = Pending -> 1
      [] status = Running -> 2
      [] status \in Terminal -> 3

StatusReturns ==
    /\ op = "GetTaskStatus"
    /\ pc = "requested"
    /\ pc' = "done"
    /\ result'.kind = "return"
    /\ result'.value.success

C13_StatusNeverMovesBack ==
    [][StatusReturns =>
        LET e == result'.value
            id == args.taskId
            before == reported[NumberOf(id)] IN
        /\ e.taskId = id
        /\ e.status \in {Pending, Running} \cup Terminal
        /\ Rank(e.status) >= Rank(before)
        /\ before \in Terminal => e.status = before
        /\ reported'[NumberOf(id)] = e.status]_vars

(* C13: a status was reported for the task, the task has moved on since,   *)
(* and the next GetTaskStatus invocation for it is about to answer.        *)
C13_Witness ==
    /\ op = "GetTaskStatus"
    /\ pc = "requested"
    /\ args.taskId = TaskId(1)
    /\ reported[1] = Pending
    /\ tasks[1] = "CANCELED"

(* C13, second case: a terminal status was reported and is reported again  *)
C13_TerminalWitness ==
    /\ op = "GetTaskStatus"
    /\ Done
    /\ reported[1] = "FAILED"
    /\ result.kind = "return"
    /\ result.value.success
    /\ result.value.status = "FAILED"

---------------------------------------------------------------------------
(* C14 as stated: for every ListTasks invocation that sends a request to   *)
(* the vendor, the limit transmitted is at most 100 (the caller's limit    *)
(* when that is at most 100, 100 when it is larger, 10 when the caller     *)
(* gives none) and lies in the declared range 1..100.                      *)
SentList == op = "ListTasks" /\ calls > 0

CallerLimit == IF Has(args, "limit") THEN args.limit ELSE 10

C14_BelowRangeWitness ==
    /\ SentList
    /\ Has(args, "limit")
    /\ args.limit = 0
    /\ request.params.limit = 0
    /\ Done
    /\ VendorAnswered

(* C14, third case: no limit given *)
C14_DefaultWitness ==
    /\ SentList
    /\ ~Has(args, "limit")
    /\ request.params.limit = 10

---------------------------------------------------------------------------
(* C15: the catalog is the ordered list of nine operations GenerateImage,  *)
(* GenerateImageWithReferences, GenerateVideoFromText,                     *)
(* GenerateVideoFromImage, GenerateVideoFromVideo, UpscaleVideo,           *)
(* GetTaskStatus, ListTasks, CancelTask at every moment; the names are     *)
(* pairwise distinct, each name resolves to exactly one handler module,    *)
(* and every invocation running under a catalog name runs that module's    *)
(* operation.                                                              *)
NamesListed == [i \in DOMAIN registry |-> registry[i].name]

Resolve(name) == {registry[i].path : i \in {j \in DOMAIN registry : registry[j].name = name}}

---------------------------------------------------------------------------
(* C16: within one invocation the steps occur in the order Received,       *)
(* Validating, then Rejected or Dispatched, then Succeeded or Failed; a    *)
(* vendor client exists and a vendor call has been made only when the      *)
(* arguments passed every local check and the credential is set; and an    *)
(* invocation that returned a local validation failure or the              *)
(* missing-credential failure made no vendor call, constructed no client   *)
(* and received nothing from the vendor.                                   *)
Phase ==
    CASE pc = "idle" -> "None"
      [] pc = "importing" -> "Validating"
      [] pc \in {"requested", "polling"} -> "Dispatched"
      [] pc = "done" /\ calls = 0 -> "Rejected"
      [] pc = "done" /\ calls > 0 /\ result.kind = "return" /\ result.value.success ->
            "Succeeded"
      [] OTHER -> "Failed"

PhaseOrder ==
    {<<"None", "Validating">>, <<"None", "Rejected">>,
     <<"Validating", "Rejected">>, <<"Validating", "Dispatched">>,
     <<"Dispatched", "Succeeded">>, <<"Dispatched", "Failed">>,
     <<"Rejected", "None">>, <<"Succeeded", "None">>, <<"Failed", "None">>}

CredentialPresent ==
    Has(processEnv, "RUNWAY_API_KEY") /\ processEnv.RUNWAY_API_KEY # ""

LocallyRejected ==
    Done /\ (~PassesLocalChecks(op, args) \/ result = Return(CredentialEnvelope))

C16_ValidationBeforeDispatch ==
    /\ []((calls > 0 \/ client) => (PassesLocalChecks(op, args) /\ CredentialPresent))
    /\ [](LocallyRejected =>
            (calls = 0 /\ ~client /\ resp = NoResp /\ request = Empty))
    /\ [][Phase' # Phase => <<Phase, Phase'>> \in PhaseOrder]_vars

C16_Witness ==
    /\ op = "GenerateVideoFromVideo"
    /\ Phase = "Succeeded"
    /\ calls = 1
    /\ client
    /\ Has(args, "referenceImages")
    /\ Len(args.referenceImages.items) = 2

(* C16, second case: rejected for the credential after the local checks *)
C16_RejectedWitness ==
    /\ op = "CancelTask"
    /\ Phase = "Rejected"
    /\ PassesLocalChecks(op, args)
    /\ ~CredentialPresent
    /\ ~client
    /\ calls = 0

---------------------------------------------------------------------------
(* C17: no invocation retries: an invocation submits at most one request   *)
(* to the vendor, exactly one when the vendor answered or raised; after    *)
(* the vendor raised an error the invocation submits nothing more; and the *)
(* envelope an invocation has returned is its only one.                    *)
C17_NoRetry ==
    /\ [](calls <= 1)
    /\ [](resp # NoResp => calls = 1)
    /\ [](Done => result.kind = "return")
    /\ [][VendorRaised => calls' <= calls]_vars
    /\ [][Done /\ Done' => result' = result /\ calls' = calls]_vars

C17_Witness ==
    /\ op = "GenerateImage"
    /\ Done
    /\ VendorRaised
    /\ calls = 1
    /\ result.kind = "return"
    /\ result.value.success = FALSE

---------------------------------------------------------------------------
(* C18: GetTaskStatus and CancelTask never wait for a task: once           *)
(* validation has passed they make exactly one vendor request, and the     *)
(* step that brings its response is the step that ends the invocation;     *)
(* the envelope of a GetTaskStatus that the vendor answered is a success   *)
(* with the status the task has at that moment, PENDING and RUNNING        *)
(* included.                                                               *)
TaskOpAnswers ==
    /\ op \in TaskOps
    /\ pc = "requested"
    /\ pc' # pc

C18_SingleRequestNoPolling ==
    /\ [](op \in TaskOps => (pc # "polling" /\ waitingOn = 0 /\ calls <= 1))
    /\ []((op \in TaskOps /\ Done /\ PassesLocalChecks(op, args)
           /\ CredentialPresent) => (calls = 1 /\ resp # NoResp))
    /\ [][TaskOpAnswers => (pc' = "done" /\ resp' # NoResp)]_vars
    /\ [][(TaskOpAnswers /\ op = "GetTaskStatus" /\ resp'.kind = "ok") =>
            /\ result'.kind = "return"
            /\ result'.value.success
            /\ Has(result'.value, "status")
            /\ result'.value.status = tasks[NumberOf(args.taskId)]]_vars

C18_Witness ==
    /\ op = "GetTaskStatus"
    /\ Done
    /\ calls = 1
    /\ tasks[1] = Running
    /\ result.kind = "return"
    /\ result.value.success
    /\ result.value.status = Running

(* C18, second case: CancelTask answered at once for a pending task *)
C18_CancelWitness ==
    /\ op = "CancelTask"
    /\ Done
    /\ calls = 1
    /\ VendorAnswered
    /\ result.value.success

---------------------------------------------------------------------------
(* C19: with two invocations in flight and their steps interleaved in      *)
(* every way, each invocation has its own client once it has submitted,    *)
(* submits the request built from its own arguments, and returns the       *)
(* envelope it returns alone for the vendor response it received; and no   *)
(* step changes the state of both invocations.                             *)
First ==
    [pc |-> pc, op |-> op, args |-> args, calls |-> calls, client |-> client,
     request |-> request, resp |-> resp, waitingOn |-> waitingOn,
     result |-> result]

(* What an invocation of h with arguments a returns when it runs alone and *)
(* the vendor answers r                                                    *)
AloneEnvelopes(h, a, env, r) ==
    LET v == TryCatch(h, a, LocalChecks(h, a)) IN
    IF v.kind # "continue" THEN {v}
    ELSE LET sub == Submit(h, a, env) IN
         IF sub.kind = "return" THEN {Return(sub.value)}
         ELSE IF r = NoResp THEN {}
         ELSE {Settle(h, a, r, now) : now \in Times}

RunsAsAlone(inv) ==
    /\ inv.calls > 0 =>
            /\ inv.client
            /\ inv.request = [endpoint |-> Endpoint(inv.op),
                              params |-> BuildParams(inv.op, inv.args)]
    /\ inv.pc = "done" =>
            inv.result \in AloneEnvelopes(inv.op, inv.args, processEnv, inv.resp)

C19_NoInterference ==
    /\ [](RunsAsAlone(First) /\ RunsAsAlone(other))
    /\ [][First' = First \/ other' = other]_vars

C19_Witness ==
    /\ op = "GenerateImage"
    /\ Done
    /\ VendorAnswered
    /\ result.value.success
    /\ other.op = "GenerateVideoFromImage"
    /\ other.pc = "done"
    /\ other.resp.kind = "error"
    /\ other.result.value.success = FALSE

(* C19, second case: two invocations of the same tool with different       *)
(* arguments, both submitted                                               *)
C19_SameToolWitness ==
    /\ op = "GenerateVideoFromImage"
    /\ other.op = "GenerateVideoFromImage"
    /\ args # other.args
    /\ calls = 1
    /\ other.calls = 1
    /\ request # other.request

---------------------------------------------------------------------------
(* C20 as stated: a CancelTask invocation for task T never completes,      *)
(* interrupts or changes a concurrent generation invocation suspended      *)
(* waiting for T; that invocation leaves its wait only when T has reached  *)
(* a terminal state at the vendor; and once T is canceled it eventually    *)
(* returns, with a failure envelope.                                       *)
Waiting(inv) == inv.pc = "polling"

CancelAnswered(c, d, n) ==
    /\ c.op = "CancelTask"
    /\ c.pc = "requested"
    /\ c.request.params.taskId = TaskId(n)
    /\ d.pc = "done"

CancelInFlight(c, n) ==
    /\ c.op = "CancelTask"
    /\ c.pc # "idle"
    /\ c.args.taskId = TaskId(n)

LeavesWait(inv, next) == Waiting(inv) /\ ~Waiting(next)

UntouchedByCancel ==
    /\ (Waiting(First) /\ CancelAnswered(other, other', waitingOn)) => First' = First
    /\ (Waiting(other) /\ CancelAnswered(First, First', other.waitingOn)) =>
            other' = other

CanceledGivesFailure ==
    /\ (LeavesWait(First, First') /\ tasks[waitingOn] = "CANCELED") =>
            /\ result'.kind = "return"
            /\ result'.value.success = FALSE
    /\ (LeavesWait(other, other') /\ tasks[other.waitingOn] = "CANCELED") =>
            /\ other'.result.kind = "return"
            /\ other'.result.value.success = FALSE

CanceledEventuallyReturns ==
    /\ (Waiting(First) /\ tasks[waitingOn] = "CANCELED") ~> Done
    /\ (Waiting(other) /\ tasks[other.waitingOn] = "CANCELED") ~> (other.pc = "done")

C20_WaitEndsOnlyAtTerminal ==
    /\ [][UntouchedByCancel /\ CanceledGivesFailure]_vars
    /\ [][/\ (LeavesWait(First, First') /\ CancelInFlight(other, waitingOn)) =>
                tasks[waitingOn] \in Terminal
          /\ (LeavesWait(other, other') /\ CancelInFlight(First, other.waitingOn)) =>
                tasks[other.waitingOn] \in Terminal]_vars
    /\ CanceledEventuallyReturns

(* C20 amended: the generation invocation leaves its wait only by a step   *)
(* of its own, in which it either observes at the vendor that T has        *)
(* reached a terminal state or gets an error from its own wait (a          *)
(* transport error), whatever the cancel invocation did; the rest is as    *)
(* stated.                                                                 *)
OwnWaitError(r) == r.kind = "error" /\ r.error.name # "TaskFailedError"

C20_CancelDoesNotInterrupt ==
    /\ [][UntouchedByCancel /\ CanceledGivesFailure]_vars
    /\ [][/\ LeavesWait(First, First') =>
                /\ other' = other
                /\ First'.pc = "done"
                /\ tasks[waitingOn] \in Terminal \/ OwnWaitError(resp')
          /\ LeavesWait(other, other') =>
                /\ First' = First
                /\ other'.pc = "done"
                /\ tasks[other.waitingOn] \in Terminal \/ OwnWaitError(other'.resp)]_vars
    /\ CanceledEventuallyReturns

(* C20: a generation invocation that was waiting for the task when a       *)
(* concurrent CancelTask for it succeeded has returned the failed-task     *)
(* envelope with the canceled status in its details.                       *)
C20_Witness ==
    /\ op = "GenerateVideoFromImage"
    /\ Done
    /\ VendorRaised
    /\ resp.error.name = "TaskFailedError"
    /\ Has(result.value, "details")
    /\ result.value.details.status = "CANCELED"
    /\ result.value.success = FALSE
    /\ other.op = "CancelTask"
    /\ other.pc = "done"
    /\ other.result.value.success

(* C20, second case: the cancel has been answered and the generation       *)
(* invocation is still suspended                                           *)
C20_StillWaitingWitness ==
    /\ op = "GenerateImage"
    /\ pc = "polling"
    /\ tasks[waitingOn] = "CANCELED"
    /\ other.op = "CancelTask"
    /\ other.pc = "done"
    /\ other.result.value.success

---------------------------------------------------------------------------
(* C21 as stated: in every generation operation a value of model, ratio,   *)
(* style, duration or seed outside what the schema declares is never       *)
(* rejected locally; it is in the request sent to the vendor, unchanged;   *)
(* and when the vendor rejects the request the envelope is the generic     *)
(* failure of the operation.                                               *)
TuningKeys == {"model", "ratio", "style", "duration", "seed"}

DeclaredModels(h) ==
    CASE h \in {"GenerateImage", "GenerateImageWithReferences"} -> {"gen4_image"}
      [] h = "UpscaleVideo" -> {"upscale_video"}
      [] OTHER -> {"gen4_turbo"}

DeclaredRatios(h) ==
    IF h \in {"GenerateImage", "GenerateImageWithReferences"}
    THEN {"1920:1080", "1080:1920", "1024:1024", "1280:720", "720:1280",
          "1536:640", "640:1536"}
    ELSE {"1280:720", "720:1280", "1024:1024", "1920:1080", "1080:1920"}

DeclaredStyles ==
    {"photorealistic", "cinematic", "artistic", "illustration", "concept_art"}

Undeclared(h, k, v) ==
    CASE k = "model" -> v \notin DeclaredModels(h)
      [] k = "ratio" -> v \notin DeclaredRatios(h)
      [] k = "style" -> v \notin DeclaredStyles
      [] k = "duration" -> v < 5 \/ v > 10
      [] k = "seed" -> v < 0 \/ v > 2147483647

UndeclaredKeys(h, a) == {k \in TuningKeys \cap DOMAIN a : Undeclared(h, k, a[k])}

NotRejectedLocally ==
    (op \in GenerationOps /\ Done /\ PassesLocalChecks(op, args)
     /\ CredentialPresent) => calls = 1

VendorRejected ==
    /\ Done
    /\ VendorRaised
    /\ Has(resp.error, "status")
    /\ resp.error.status = 400

RejectionIsGeneric ==
    (op \in GenerationOps /\ VendorRejected /\ UndeclaredKeys(op, args) # {}) =>
        result = Return([success |-> FALSE, error |-> ScopedText(op),
                         message |-> resp.error.message])

C21_UndeclaredValuesTransmitted ==
    /\ NotRejectedLocally
    /\ RejectionIsGeneric
    /\ (op \in GenerationOps /\ calls > 0) =>
            \A k \in UndeclaredKeys(op, args) :
                Has(request.params, k) /\ request.params[k] = args[k]

(* C21 amended: as stated, except that a style that is the empty string is *)
(* left out of the request instead of being transmitted.                   *)
C21_UndeclaredValuesPassThrough ==
    /\ NotRejectedLocally
    /\ RejectionIsGeneric
    /\ (op \in GenerationOps /\ calls > 0) =>
            \A k \in UndeclaredKeys(op, args) :
                IF k = "style" /\ args[k] = ""
                THEN ~Has(request.params, k)
                ELSE Has(request.params, k) /\ request.params[k] = args[k]

C21_Witness ==
    /\ op = "GenerateVideoFromText"
    /\ VendorRejected
    /\ UndeclaredKeys(op, args) = {"model", "ratio", "duration", "seed"}
    /\ request.params.duration = 60
    /\ request.params.seed = -1
    /\ result.value.success = FALSE

(* C21, second case: values that JavaScript treats as false *)
C21_FalsyWitness ==
    /\ op = "GenerateVideoFromText"
    /\ calls = 1
    /\ Has(args, "duration")
    /\ args.duration = 0
    /\ request.params.duration = 0
    /\ request.params.model = ""

(* C21, third case: the empty style is dropped *)
C21_EmptyStyleWitness ==
    /\ op = "GenerateImage"
    /\ calls = 1
    /\ Has(args, "style")
    /\ args.style = ""
    /\ ~Has(request.params, "style")

---------------------------------------------------------------------------
(* C22: every request that GenerateImageWithReferences or                  *)
(* GenerateVideoFromVideo has sent to the vendor carries at most 4         *)
(* reference images, and at least 1 for GenerateImageWithReferences; an    *)
(* invocation given more than 4 reference images has sent no request.      *)
SentReferences ==
    IF Has(request.params, "referenceImages")
    THEN request.params.referenceImages.items ELSE <<>>

C22_AtMostFourReferences ==
    (op \in {"GenerateImageWithReferences", "GenerateVideoFromVideo"}) =>
        /\ calls > 0 =>
                /\ Len(SentReferences) <= 4
                /\ op = "GenerateImageWithReferences" => Len(SentReferences) >= 1
        /\ (Has(args, "referenceImages") /\ Len(args.referenceImages.items) > 4) =>
                calls = 0

---------------------------------------------------------------------------
(* C23 as stated: the ListTasks operation that reports the capability      *)
(* unsupported never calls the vendor and, whatever limit, status, cursor  *)
(* and credential state, returns success = false with the error 'Task      *)
(* listing not supported'.                                                 *)
NotSupportedText == <<"Task", "listing", "not", "supported">>

ReturnsNotSupported ==
    /\ result.kind = "return"
    /\ result.value.success = FALSE
    /\ Has(result.value, "error")
    /\ result.value.error = NotSupportedText

C23_UnsupportedWhateverCredential ==
    op = ListTasksUnsupported =>
        /\ calls = 0
        /\ Done => ReturnsNotSupported

(* C23 amended: that operation never calls the vendor and never returns    *)
(* success = true; with the credential set it returns the error 'Task      *)
(* listing not supported' for every limit, status and cursor, and with the *)
(* credential unset or empty it returns the missing-credential envelope.   *)
C23_UnsupportedWhenCredentialSet ==
    op = ListTasksUnsupported =>
        /\ calls = 0
        /\ resp = NoResp
        /\ Done =>
            /\ result.kind = "return"
            /\ result.value.success = FALSE
            /\ IF CredentialPresent THEN ReturnsNotSupported
               ELSE result = Return(CredentialEnvelope)

C23_Witness ==
    /\ op = ListTasksUnsupported
    /\ Done
    /\ CredentialPresent
    /\ Has(args, "limit")
    /\ args.limit = 101
    /\ Has(args, "cursor")
    /\ ReturnsNotSupported

(* C23, second case: no credential *)
C23_NoCredentialWitness ==
    /\ op = ListTasksUnsupported
    /\ Done
    /\ ~CredentialPresent
    /\ result = Return(CredentialEnvelope)

---------------------------------------------------------------------------
(* C24: no step of any invocation, successful or failed, changes the       *)
(* credential value or the operation catalog, which stays the one built at *)
(* startup; and from the moment an invocation is received until its        *)
(* envelope is returned the caller's argument object, its referenceImages  *)
(* list included, stays as the caller passed it.                           *)
InFlight == pc # "idle"

C24_ProcessStateUnchanged ==
    /\ [](registry = discoverTools)
    /\ [][/\ processEnv' = processEnv
          /\ registry' = registry
          /\ (InFlight /\ InFlight') => (op' = op /\ args' = args)]_vars

C24_Witness ==
    /\ op = "GenerateVideoFromVideo"
    /\ Done
    /\ VendorAnswered
    /\ Has(args, "referenceImages")
    /\ Len(args.referenceImages.items) = 2
    /\ request.params.referenceImages = args.referenceImages
    /\ ~Has(args, "model")
    /\ CredentialPresent
    /\ registry = discoverTools

(* C24, second case: a failed invocation *)
C24_FailedWitness ==
    /\ op = "GenerateVideoFromVideo"
    /\ Done
    /\ VendorRaised
    /\ ~Has(args, "duration")
    /\ request.params.duration = 5
    /\ processEnv.RUNWAY_API_KEY = "key_1"

---------------------------------------------------------------------------
(* C25, as stated: the envelope an invocation returns is the one the same  *)
(* operation returns for equal arguments, equal credential state and equal *)
(* vendor outcome at any other time of call and after any other earlier    *)
(* invocations.                                                            *)
SameInputs == AloneEnvelopes(op, args, processEnv, resp)

C25_Deterministic ==
    Done => SameInputs = {result}

(* Fields of an envelope other than k *)
Besides(r, k) ==
    IF r.kind = "return"
    THEN [f \in DOMAIN r.value \ {k} |-> r.value[f]]
    ELSE r

ClockStamped ==
    /\ op = "CancelTask"
    /\ VendorAnswered
    /\ ~Truthy(resp.value, "canceledAt")

(* C25: the same holds for every operation except a successful CancelTask  *)
(* whose vendor result carries no canceledAt: there canceledAt is the time *)
(* of the call and every other field is the same.                          *)
C25_DeterministicBesidesClock ==
    Done =>
        /\ result \in SameInputs
        /\ ~ClockStamped => SameInputs = {result}
        /\ ClockStamped =>
            /\ \A r \in SameInputs : Besides(r, "canceledAt") = Besides(result, "canceledAt")
            /\ \E now \in Times : result.value.canceledAt = ToISOString(now)

C25_Witness ==
    /\ op = "CancelTask"
    /\ Done
    /\ VendorAnswered
    /\ Truthy(resp.value, "canceledAt")
    /\ result.value.canceledAt = resp.value.canceledAt

(* C25, second case: the time of the call in the envelope *)
C25_ClockWitness ==
    /\ Done
    /\ ClockStamped
    /\ result.value.canceledAt = ToISOString(MaxTime)

(* C25, third case: a status query of a task an earlier invocation created *)
C25_LaterInvocationWitness ==
    /\ op = "GetTaskStatus"
    /\ Done
    /\ VendorAnswered
    /\ result.value.success
    /\ result.value.status = "SUCCEEDED"

---------------------------------------------------------------------------
(* C26: with the credential set, what an invocation sends and what it      *)
(* returns are what the same invocation sends and returns under any other  *)
(* non-empty credential value for the same vendor outcome: the value       *)
(* reaches the client constructor only, never the request parameters or    *)
(* an envelope.                                                            *)
SetCredentials == {[RUNWAY_API_KEY |-> k] : k \in {v \in ApiKeys : v # ""}}

C26_CredentialDoesNotFlow ==
    CredentialPresent =>
        \A env \in SetCredentials :
            /\ calls > 0 =>
                /\ client
                /\ request = Submit(op, args, env).request
                /\ request = [endpoint |-> Endpoint(op),
                              params |-> BuildParams(op, args)]
            /\ Done => result \in AloneEnvelopes(op, args, env, resp)

C26_Witness ==
    /\ processEnv = [RUNWAY_API_KEY |-> "key_2"]
    /\ op = "GenerateImage"
    /\ Done
    /\ VendorAnswered
    /\ result.value.success
    /\ result \in AloneEnvelopes(op, args, [RUNWAY_API_KEY |-> "key_1"], resp)

(* C26, second case: a failure envelope built from the vendor's error *)
C26_FailureWitness ==
    /\ processEnv = [RUNWAY_API_KEY |-> "key_1"]
    /\ op = "GetTaskStatus"
    /\ Done
    /\ VendorRaised
    /\ result \in AloneEnvelopes(op, args, [RUNWAY_API_KEY |-> "key_2"], resp)

====
